---------------------------- MODULE Spec2Model ----------------------------
(***************************************************************************)
(* A model of the chicken-coop door automation (house_codes/):             *)
(*   chicken_coop.py        the controller loop, the schedule (TimeFrame)  *)
(*                          and the light-trend classifier (trend_check)   *)
(*   door_motor.py          the stepper driver and the door_motor program  *)
(*   state_log_manager.py   the persisted door-state record                *)
(*   light_sensor.py        the photoresistor measurement                  *)
(*                                                                         *)
(* The specifications share the variables:                                 *)
(*   Spec          runs of the two programs (door_motor's main and the     *)
(*                 controller), with crashes, interrupts and restarts      *)
(*   FairSpec      Spec with the process scheduled                         *)
(*   SpecSchedule  the schedule functions applied to drawn inputs          *)
(*   SpecTimeFrame the construction of TimeFrame for every schedule the    *)
(*                 parser permits                                          *)
(*   SpecTrend     trend_check applied to drawn reading windows            *)
(*   SpecWindow    the reading window over sampling cycles                 *)
(*   SpecMotor     set_sequence and turn_motor on drawn inputs             *)
(*   SpecSteps     float_2_steps on drawn revolutions and step sizes       *)
(*   SpecStore     StateLogManager and check_door_state on the file's text *)
(*   SpecReads     successive reads of the state file while it is absent   *)
(*                                                                         *)
(* Times of day are minutes since midnight on a 15-minute grid: every      *)
(* bound the schedule uses is a multiple of 30 minutes, so each time of    *)
(* day compares with all of them like some point of the grid.              *)
(***************************************************************************)
EXTENDS Integers, Sequences, FiniteSets, TLC

VARIABLES
    now,          \* the wall clock's time of day (datetime.now().time())
    sched,        \* args.early_open, late_open, early_close, late_close
    trend_len,    \* args.trend_len
    state_log,    \* args.state_log: "default" or "custom"
    logFile,      \* the file at args.state_log
    defFile,      \* the file at '../data/state_log.txt' when it is another file
    prog,         \* the running program: "none", "door_motor", "chicken_coop"
    pc,           \* its position
    door_action,  \* door_motor's args.door_action
    cur_status,   \* door_motor: check_door_state's result (its door_state)
    action,       \* the action being decided (chicken_coop's global `action`)
    reading,      \* chicken_coop: take_measurement's result
    trend,        \* chicken_coop: trend_check's result
    step_i,       \* turn_motor's i
    counter,      \* turn_motor's counter (the row cursor)
    door_info,    \* turn_motor's result
    pinsWritten,  \* GPIO.output has been called in this run
    cleaned,      \* GPIO.cleanup has been called in this run, no pin written since
    hist,         \* history of the runs (observations, not program state)
    cyc,          \* history of the controller's current cycle
    fnName,       \* SpecSchedule, SpecTrend: the function applied
    fnArg,        \* its argument
    fnRead,       \* the door_state its check_door_state call returned
    fnRet,        \* its result
    light_list,   \* SpecTrend: trend_check's list
    step_size,    \* SpecMotor: args.step_size
    step_sequence,\* SpecMotor: set_sequence's result, turn_motor's seq
    num_steps,    \* SpecMotor: turn_motor's seq_steps
    gpio_writes,  \* SpecMotor: the rows turn_motor has written to the pins
    file_text,    \* SpecStore: the text of the state file
    log_data,     \* SpecStore: StateLogManager's log_data
    user_inputs   \* SpecStore: what the operator will type, in order

envVars  == <<now, sched, state_log, logFile, defFile>>
progVars == <<prog, pc, trend_len, door_action, cur_status, action, reading,
              trend, step_i, counter, door_info, pinsWritten, cleaned>>
histVars == <<hist, cyc>>
motorVars == <<step_size, step_sequence, num_steps, gpio_writes>>
storeVars == <<file_text, log_data, user_inputs>>
fnVars   == <<fnName, fnArg, fnRead, fnRet, light_list, motorVars, storeVars>>
vars     == <<envVars, progVars, histVars, fnVars>>

None == "None"
Actions == {"open", "close"}

-----------------------------------------------------------------------------
(* Time of day *)

DayMinutes == 24 * 60
TimeOfDay(h, m) == h * 60 + m
Times == {t \in 0 .. DayMinutes - 1 : t % 15 = 0}

\* is_time_between leaving the two bounds out.
is_time_between_strict(begin_time, end_time, check_time) ==
    IF begin_time < end_time
    THEN check_time > begin_time /\ check_time < end_time
    ELSE check_time > begin_time \/ check_time < end_time

is_time_between(begin_time, end_time, check_time) ==
    IF begin_time < end_time
    THEN check_time >= begin_time /\ check_time <= end_time
    ELSE check_time >= begin_time \/ check_time <= end_time

is_time_greater(time_limit, check_time) == check_time > time_limit

-----------------------------------------------------------------------------
(* The schedule: TimeFrame *)

\* datetime.time(hour, minute) raises ValueError unless 0 <= hour <= 23.
ValidHour(h) == h >= 0 /\ h <= 23

TimeFrameOk(c) ==
    /\ ValidHour(c.early_open) /\ ValidHour(c.late_open)
    /\ ValidHour(c.early_open - 2) /\ ValidHour(c.late_open - 2)
    /\ ValidHour(c.early_close) /\ ValidHour(c.late_close)
    /\ ValidHour(c.early_close - 2) /\ ValidHour(c.late_close - 2)

TimeFrame(c) ==
    [open_frame  |-> <<TimeOfDay(c.early_open, 0), TimeOfDay(c.late_open, 0)>>,
     open_check  |-> <<TimeOfDay(c.early_open - 2, 30), TimeOfDay(c.late_open - 2, 30)>>,
     close_frame |-> <<TimeOfDay(c.early_close, 0), TimeOfDay(c.late_close, 0)>>,
     close_check |-> <<TimeOfDay(c.early_close - 2, 30), TimeOfDay(c.late_close - 2, 30)>>,
     open_limit  |-> TimeOfDay(c.late_open, 0),
     close_limit |-> TimeOfDay(c.late_close, 0)]

time_to_check(tf, t) ==
    \/ is_time_between(tf.open_check[1], tf.open_check[2], t)
    \/ is_time_between(tf.close_check[1], tf.close_check[2], t)

\* The frame openclose_check settles on before it reads the door state.
ActionFrame(tf, t, action_frame) ==
    IF is_time_between(tf.open_frame[1], tf.open_frame[2], t) THEN "open"
    ELSE IF is_time_between(tf.close_frame[1], tf.close_frame[2], t) THEN "close"
    ELSE action_frame

\* openclose_check returning action_frame where the code returns `action`.
openclose_check_returns_frame(tf, t, action_frame, door_state, act) ==
    LET frame == ActionFrame(tf, t, action_frame)
    IN  IF frame # None /\ door_state = frame THEN frame ELSE None

\* door_state is what check_door_state() returns (read only when a frame is
\* found); act is the module's global `action` at the call.
openclose_check(tf, t, action_frame, door_state, act) ==
    LET frame == ActionFrame(tf, t, action_frame)
    IN  IF frame # None
        THEN IF door_state = frame THEN act ELSE None
        ELSE None

\* ds1, ds2: what check_door_state() returns in the first and the second
\* openclose_check call.
limit_check(tf, t, ds1, ds2, act) ==
    LET first == IF /\ is_time_greater(tf.open_limit, t)
                    /\ openclose_check(tf, t, "open", ds1, act) = "open"
                 THEN "open" ELSE None
    IN  IF /\ is_time_greater(tf.close_limit, t)
           /\ openclose_check(tf, t, "close", ds2, act) = "close"
        THEN "close" ELSE first

-----------------------------------------------------------------------------
(* The light trend: trend_check *)

\* The comparison of line 241: rec > val.
ReadingGreaterOrEqual(rec, val) == rec >= val

ReadingGreater(rec, val) == rec > val

RECURSIVE CountPairs(_, _)
\* The loop of trend_check over the list after pop(0): <<increase, decrease>>.
CountPairs(val, rest) ==
    IF rest = <<>> THEN <<0, 0>>
    ELSE LET c == CountPairs(Head(rest), Tail(rest))
         IN  IF ReadingGreater(Head(rest), val)
             THEN <<c[1] + 1, c[2]>>
             ELSE <<c[1], c[2] + 1>>

trend_check(list) ==
    LET c == CountPairs(Head(list), Tail(list))
    IN  IF c[1] = 0 THEN "close" ELSE IF c[2] = 0 THEN "open" ELSE None

-----------------------------------------------------------------------------
(* The persisted record: state_log_manager.py *)

NoTime == 0 - 1

\* A state file: absent, or present with the door_state and the time its lines
\* give ("" and NoTime when it has no such line, as an empty or truncated
\* file has).
Absent    == [exists |-> FALSE, door_state |-> "", time |-> NoTime]
EmptyFile == [exists |-> TRUE, door_state |-> "", time |-> NoTime]
Record(state, time) == [exists |-> TRUE, door_state |-> state, time |-> time]

\* The door states check_door_state can return on a file: the one its
\* door_state line gives, or, the file absent, the operator's answer ('y' is
\* open, 'n' is close).
DoorStateReads(file) ==
    IF file.exists THEN {file.door_state} ELSE {"open", "close"}

\* The file check_door_state() reads when called without a path, as
\* openclose_check calls it: '../data/state_log.txt'.
DefaultFile == IF state_log = "default" THEN logFile ELSE defFile

-----------------------------------------------------------------------------
(* Configurations *)

Schedule(eo, lo, ec, lc) ==
    [early_open |-> eo, late_open |-> lo, early_close |-> ec, late_close |-> lc]

\* The parser's defaults.
DefaultSchedule == Schedule(5, 7, 17, 20)

\* Schedules the parser accepts (hours 0..12 to open, 13..23 to close) and
\* TimeFrame constructs; the frames of some wrap past midnight.
OpenHourPairs  == {<<5, 7>>, <<2, 12>>, <<7, 5>>, <<6, 6>>}
CloseHourPairs == {<<17, 20>>, <<13, 23>>, <<20, 17>>}
Schedules ==
    {c \in {Schedule(o[1], o[2], k[1], k[2]) :
                o \in OpenHourPairs, k \in CloseHourPairs} : TimeFrameOk(c)}

FileStates == {Absent, EmptyFile, Record("open", NoTime), Record("close", NoTime)}

\* take_measurement's None (no reading), apart from every reading >= 0.
NoReading == 0 - 1

\* A datetime is <<time of day, microseconds # 0>>.
NoDoorInfo == [door_state |-> None, time |-> <<NoTime, 0>>]

NoProgram ==
    /\ prog = "none" /\ pc = "off" /\ trend_len = 5
    /\ door_action = None /\ cur_status = None
    /\ action = None /\ reading = NoReading /\ trend = None
    /\ step_i = 0 /\ counter = 0 /\ door_info = NoDoorInfo
    /\ pinsWritten = FALSE /\ cleaned = FALSE

\* hist: lastRun, prevRun: the actions of the last two completed motor runs;
\*   lostWrite: a run ended after its motor run completed and before its state
\*   write did; cut: a run ended by a crash or an interrupt before its motor
\*   run completed; fileAtStart: the state file when the current run started;
\*   skipped: the current run found the door already in the state asked for;
\*   wrote: the current run wrote the state file; lastStepAt: the time of day
\*   at the last step of the current motor run;
\*   ticks: the 15-minute steps the clock has made;
\*   interrupted: the current run has received a KeyboardInterrupt;
\*   exited: how the last run ended, if it has: "finally" (through the
\*   finally block of its main program) or "killed"; "no" while it runs.
\* cyc: of the controller's current cycle: checked: time_to_check was true;
\*   limitCalls: the calls of limit_check; reads: the door states
\*   check_door_state returned; frameTime, permitted: the time of day
\*   openclose_check() (line 329) saw, and its result; decided: the
\*   assignments of an action to `action` (lines 330, 333); motorRuns: the
\*   calls of turn_motor; writes: the calls of StateLogManager; limitTime:
\*   the time of day limit_check (line 331) saw.
NoRuns ==
    [lastRun |-> None, prevRun |-> None, lostWrite |-> FALSE,
     cut |-> FALSE, fileAtStart |-> Absent, skipped |-> FALSE,
     wrote |-> FALSE, lastStepAt |-> NoTime, ticks |-> 0,
     interrupted |-> FALSE, exited |-> "no"]
NoCycle ==
    [checked |-> FALSE, limitCalls |-> 0, frameTime |-> NoTime, reads |-> {},
     permitted |-> None, decided |-> 0, motorRuns |-> 0, writes |-> 0,
     limitTime |-> NoTime]

NoHistory == hist = NoRuns /\ cyc = NoCycle

NoStore ==
    /\ file_text = [exists |-> FALSE, lines |-> <<>>]
    /\ log_data = NoDoorInfo
    /\ user_inputs = <<>>

NoMotor ==
    /\ step_size = 1 /\ step_sequence = <<>> /\ num_steps = 0
    /\ gpio_writes = <<>>

NoFunction ==
    /\ fnName = None /\ fnArg = <<>> /\ fnRead = <<>> /\ fnRet = None
    /\ light_list = <<>>
    /\ NoMotor /\ NoStore

-----------------------------------------------------------------------------
(* SpecSchedule: the schedule functions on drawn inputs *)

InitSchedule ==
    /\ now \in Times
    /\ sched \in Schedules
    /\ state_log = "default"
    /\ logFile \in FileStates
    /\ defFile = Absent
    /\ NoProgram /\ NoHistory
    /\ NoFunction

ApplyTimeToCheck ==
    /\ fnName = None
    /\ fnName' = "time_to_check"
    /\ fnRet' = time_to_check(TimeFrame(sched), now)
    /\ UNCHANGED <<envVars, progVars, histVars, fnArg, fnRead, light_list,
                   motorVars, storeVars>>

\* openclose_check() as line 329 calls it: no argument, `action` None.
ApplyOpencloseCheck ==
    /\ fnName = None
    /\ fnName' = "openclose_check"
    /\ LET tf == TimeFrame(sched)
           reads == ActionFrame(tf, now, None) # None
       IN  \E ds \in (IF reads THEN DoorStateReads(DefaultFile) ELSE {None}) :
              /\ fnRead' = IF reads THEN <<ds>> ELSE <<>>
              /\ fnRet' = openclose_check(tf, now, None, ds, action)
    /\ UNCHANGED <<envVars, progVars, histVars, fnArg, light_list, motorVars, storeVars>>

\* limit_check() as line 331 calls it.
ApplyLimitCheck ==
    /\ fnName = None
    /\ fnName' = "limit_check"
    /\ LET tf == TimeFrame(sched)
           leg1 == is_time_greater(tf.open_limit, now)
           leg2 == is_time_greater(tf.close_limit, now)
       IN  \E ds1 \in (IF leg1 THEN DoorStateReads(DefaultFile) ELSE {None}),
              ds2 \in (IF leg2 THEN DoorStateReads(DefaultFile) ELSE {None}) :
              /\ fnRead' = (IF leg1 THEN <<ds1>> ELSE <<>>)
                             \o (IF leg2 THEN <<ds2>> ELSE <<>>)
              /\ fnRet' = limit_check(tf, now, ds1, ds2, action)
    /\ UNCHANGED <<envVars, progVars, histVars, fnArg, light_list, motorVars, storeVars>>

NextSchedule == ApplyTimeToCheck \/ ApplyOpencloseCheck \/ ApplyLimitCheck

SpecSchedule == InitSchedule /\ [][NextSchedule]_vars

InOpenFrame(tf, t)  == is_time_between(tf.open_frame[1], tf.open_frame[2], t)
InCloseFrame(tf, t) == is_time_between(tf.close_frame[1], tf.close_frame[2], t)

\* C3: permittedAction (openclose_check) never returns an action equal to the
\* door_state it read; with the persisted door_state open and now inside
\* open_frame its result is none.
C3_NeverReturnsCurrentState ==
    fnName = "openclose_check" =>
        /\ \A k \in 1 .. Len(fnRead) : fnRet # fnRead[k]
        /\ (/\ logFile.exists /\ logFile.door_state = "open"
            /\ InOpenFrame(TimeFrame(sched), now)) => fnRet = None

C3_Witness ==
    /\ fnName = "openclose_check"
    /\ logFile.exists /\ logFile.door_state = "open"
    /\ InOpenFrame(TimeFrame(sched), now)
    /\ fnRead = <<"open">>
    /\ fnRet = None

\* C4: permittedAction (openclose_check with no argument) returns 'open' when
\* now is in open_frame and the persisted door_state is not open, 'close' when
\* now is in close_frame, not in open_frame, and the persisted door_state is
\* not close, and none when now is in neither frame.
C4_AsClaimed ==
    (fnName = "openclose_check" /\ logFile.exists) =>
        LET tf == TimeFrame(sched)
        IN  /\ (InOpenFrame(tf, now) /\ logFile.door_state # "open")
                   => fnRet = "open"
            /\ (/\ InCloseFrame(tf, now) /\ ~InOpenFrame(tf, now)
                /\ logFile.door_state # "close") => fnRet = "close"
            /\ (~InOpenFrame(tf, now) /\ ~InCloseFrame(tf, now))
                   => fnRet = None

\* C5: limitAction (limit_check): strictly past close_limit with the persisted
\* door_state open the result is 'close'; strictly past open_limit, not past
\* close_limit, with the persisted door_state not open the result is 'open';
\* a branch whose action the persisted door_state already equals yields
\* nothing.
C5_AsClaimed ==
    (fnName = "limit_check" /\ logFile.exists) =>
        LET tf == TimeFrame(sched)
            pastOpen  == is_time_greater(tf.open_limit, now)
            pastClose == is_time_greater(tf.close_limit, now)
        IN  /\ (pastClose /\ logFile.door_state = "open") => fnRet = "close"
            /\ (pastOpen /\ ~pastClose /\ logFile.door_state # "open")
                   => fnRet = "open"
            /\ (pastClose /\ logFile.door_state = "close") => fnRet # "close"
            /\ (pastOpen /\ ~pastClose /\ logFile.door_state = "open")
                   => fnRet # "open"

\* now is in the interval from start to end, both included, taken round
\* midnight when start is not before end.
InInterval(start, end, t) ==
    \/ start < end /\ start <= t /\ t <= end
    \/ start >= end /\ (t >= start \/ t <= end)

\* C23: time_to_check is true exactly when now is in the open_check interval
\* or in the close_check interval; an interval whose start is its end holds
\* every time of day.
C23_TimeToCheck ==
    fnName = "time_to_check" =>
        LET tf == TimeFrame(sched)
        IN  /\ fnRet <=> \/ InInterval(tf.open_check[1], tf.open_check[2], now)
                         \/ InInterval(tf.close_check[1], tf.close_check[2], now)
            /\ tf.open_check[1] = tf.open_check[2] => fnRet

\* An empty-looking interval (04:30 to 04:30) holds noon.
C23_Witness ==
    /\ fnName = "time_to_check"
    /\ sched.early_open = 6 /\ sched.late_open = 6
    /\ sched.early_close = 17 /\ sched.late_close = 20
    /\ now = TimeOfDay(12, 0)
    /\ fnRet

-----------------------------------------------------------------------------
(* SpecTimeFrame: TimeFrame's constructor on every schedule the parser     *)
(* accepts                                                                  *)

\* chicken_coop.py:160, 167, 174, 181: the choices of the four hours.
OpenHours  == 0 .. 12
CloseHours == 13 .. 23

InitTimeFrame ==
    /\ sched \in {Schedule(eo, lo, ec, lc) :
                     eo \in OpenHours, lo \in OpenHours,
                     ec \in CloseHours, lc \in CloseHours}
    /\ now = 0
    /\ state_log = "default"
    /\ logFile = Absent
    /\ defFile = Absent
    /\ NoProgram /\ NoHistory
    /\ NoFunction

\* check_times = TimeFrame(args.early_open, ...): the object, kept in fnArg,
\* or the ValueError of datetime.time.
ApplyTimeFrame ==
    /\ fnName = None
    /\ fnName' = "TimeFrame"
    /\ IF TimeFrameOk(sched)
       THEN fnRet' = "TimeFrame" /\ fnArg' = <<TimeFrame(sched)>>
       ELSE fnRet' = "ValueError" /\ fnArg' = <<>>
    /\ UNCHANGED <<envVars, progVars, histVars, fnRead, light_list, motorVars,
                   storeVars>>

NextTimeFrame == ApplyTimeFrame

SpecTimeFrame == InitTimeFrame /\ [][NextTimeFrame]_vars

\* The time of day m minutes before t.
ShiftBack(t, m) == (t - m + DayMinutes) % DayMinutes

\* C22: for every schedule the parser accepts the construction succeeds, and
\* open_check and close_check are the bounds of open_frame and close_frame
\* 2 hours 30 minutes earlier as times of day.
C22_AsClaimed ==
    fnName = "TimeFrame" =>
        /\ fnRet = "TimeFrame"
        /\ \A i \in 1 .. 2 :
              /\ fnArg[1].open_check[i] = ShiftBack(fnArg[1].open_frame[i], 150)
              /\ fnArg[1].close_check[i] = ShiftBack(fnArg[1].close_frame[i], 150)

\* What the constructor does: it raises ValueError when early_open or
\* late_open is 0 or 1 and succeeds otherwise, and then each bound of
\* open_check and close_check is 1 hour 30 minutes before the bound of its
\* frame.
TimeFrameAsBuilt ==
    fnName = "TimeFrame" =>
        /\ fnRet = "ValueError" <=> (sched.early_open < 2 \/ sched.late_open < 2)
        /\ fnRet = "TimeFrame" =>
              \A i \in 1 .. 2 :
                 /\ fnArg[1].open_check[i] = fnArg[1].open_frame[i] - 90
                 /\ fnArg[1].close_check[i] = fnArg[1].close_frame[i] - 90

-----------------------------------------------------------------------------
(* SpecTrend: trend_check on drawn windows of readings *)

MaxLen == 4
MaxReading == 3

RECURSIVE Windows(_)
Windows(n) ==
    IF n = 0 THEN {<<>>}
    ELSE {Append(w, r) : w \in Windows(n - 1), r \in 0 .. MaxReading}

InitTrend ==
    /\ light_list \in UNION {Windows(n) : n \in 1 .. MaxLen}
    /\ now = 0
    /\ sched = DefaultSchedule
    /\ state_log = "default"
    /\ logFile = Absent
    /\ defFile = Absent
    /\ NoProgram /\ NoHistory /\ NoMotor /\ NoStore
    /\ fnName = None /\ fnArg = <<>> /\ fnRead = <<>> /\ fnRet = None

\* trend_check(light_list); its pop(0) takes the first reading off the list.
ApplyTrendCheck ==
    /\ fnName = None
    /\ fnName' = "trend_check"
    /\ fnArg' = light_list
    /\ fnRet' = trend_check(light_list)
    /\ light_list' = Tail(light_list)
    /\ UNCHANGED <<envVars, progVars, histVars, fnRead, motorVars, storeVars>>

NextTrend == ApplyTrendCheck

SpecTrend == InitTrend /\ [][NextTrend]_vars

C11_AsDocumented ==
    (fnName = "trend_check" /\ Len(fnArg) >= 2) =>
        LET Pairs == 1 .. Len(fnArg) - 1
        IN  /\ (\A k \in Pairs : fnArg[k + 1] < fnArg[k]) => fnRet = "open"
            /\ (\A k \in Pairs : fnArg[k + 1] > fnArg[k]) => fnRet = "close"

-----------------------------------------------------------------------------
(* The stepper driver: door_motor.py *)

HalfStepSeq ==
    << <<1, 0, 0, 1>>, <<1, 0, 0, 0>>, <<1, 1, 0, 0>>, <<0, 1, 0, 0>>,
       <<0, 1, 1, 0>>, <<0, 0, 1, 0>>, <<0, 0, 1, 1>>, <<0, 0, 0, 1>> >>

\* set_sequence taking the rows 0, 2, 4, 6 for step = 2 (i starting at 0).
set_sequence_even_rows(step) ==
    IF step = 1 THEN HalfStepSeq
    ELSE [k \in 1 .. Len(HalfStepSeq) \div 2 |-> HalfStepSeq[2 * k - 1]]

\* set_sequence(step): the table, or for step = 2 its rows 1, 3, 5, 7 (0-based).
set_sequence(step) ==
    IF step = 1 THEN HalfStepSeq
    ELSE [k \in 1 .. Len(HalfStepSeq) \div 2 |-> HalfStepSeq[2 * k]]

Abs(x) == IF x < 0 THEN 0 - x ELSE x

\* seq[abs(counter)]: the cursor's sign dropped.
PyIndexAbs(seq, c) == seq[Abs(c) + 1]

\* seq[counter] as Python indexes a list: a negative index counts from the end.
PyIndex(seq, c) == IF c >= 0 THEN seq[c + 1] ELSE seq[Len(seq) + c + 1]

\* The cursor wrapping one step early (abs(counter) == len(seq) - 2).
NextCounterWrapEarly(seq, c, step_dir) ==
    IF Abs(c) = Len(seq) - 2 THEN 0 ELSE c + step_dir

\* The cursor wrapping one step late (abs(counter) == len(seq)).
NextCounterWrapLate(seq, c, step_dir) ==
    IF Abs(c) = Len(seq) THEN 0 ELSE c + step_dir

\* Lines 188-191: the cursor after a step.
NextCounter(seq, c, step_dir) ==
    IF Abs(c) = Len(seq) - 1 THEN 0
    ELSE IF Abs(c) < Len(seq) - 1 THEN c + step_dir
    ELSE c

\* The directions exchanged.
StepDirSwapped(act) == IF act = "open" THEN 0 - 1 ELSE 1

\* Lines 172-175: step_dir.
StepDir(act) == IF act = "open" THEN 1 ELSE 0 - 1

\* The steps of a motor run: float_2_steps(args.revolutions, args.step_size).
NumSteps == 2

\* turn_motor's loop ending one step early (i < seq_steps - 1).
MotorDoneOffByOne(i, seq_steps) == i >= seq_steps - 1

\* The loop of turn_motor has ended: not (i < seq_steps).
MotorDone(i, seq_steps) == i >= seq_steps

-----------------------------------------------------------------------------
(* SpecMotor: set_sequence and turn_motor on drawn inputs *)

MaxSteps == 10

InitMotor ==
    /\ door_action \in Actions
    /\ step_size \in {1, 2}
    /\ num_steps \in 0 .. MaxSteps
    /\ step_sequence = <<>> /\ gpio_writes = <<>>
    /\ now = 0
    /\ sched = DefaultSchedule
    /\ state_log = "default"
    /\ logFile = Absent
    /\ defFile = Absent
    /\ prog = "none" /\ pc = "off" /\ trend_len = 5
    /\ cur_status = None
    /\ action = None /\ reading = NoReading /\ trend = None
    /\ step_i = 0 /\ counter = 0 /\ door_info = NoDoorInfo
    /\ pinsWritten = FALSE /\ cleaned = FALSE
    /\ NoHistory
    /\ fnName = None /\ fnArg = <<>> /\ fnRead = <<>> /\ fnRet = None
    /\ light_list = <<>>
    /\ NoStore

\* Lines 181-186: the levels GPIO.output gives the pins in1..in4 for a row.
PinLevels(row) == [pin \in 1 .. 4 |-> row[pin] # 0]

\* door_motor.py:227 and 172-177: the table is built and turn_motor is
\* entered: i = 0, counter = 0.
ApplySetSequence ==
    /\ fnName = None
    /\ fnName' = "turn_motor"
    /\ step_sequence' = set_sequence(step_size)
    /\ step_i' = 0 /\ counter' = 0
    /\ UNCHANGED <<envVars, prog, pc, trend_len, door_action, cur_status,
                   action, reading, trend, door_info, pinsWritten, cleaned,
                   histVars, fnArg, fnRead, fnRet, light_list, step_size,
                   num_steps, gpio_writes, storeVars>>

\* Lines 178-194: one pass of the loop of turn_motor.
TurnMotorStep ==
    /\ fnName = "turn_motor" /\ ~MotorDone(step_i, num_steps)
    /\ gpio_writes' = Append(gpio_writes,
          [cursor |-> counter,
           levels |-> PinLevels(PyIndex(step_sequence, counter))])
    /\ counter' = NextCounter(step_sequence, counter, StepDir(door_action))
    /\ step_i' = step_i + 1
    /\ UNCHANGED <<envVars, prog, pc, trend_len, door_action, cur_status,
                   action, reading, trend, door_info, pinsWritten, cleaned,
                   histVars, fnName, fnArg, fnRead, fnRet, light_list,
                   step_size, step_sequence, num_steps, storeVars>>

\* Lines 195-196: turn_motor returns.
TurnMotorReturn ==
    /\ fnName = "turn_motor" /\ MotorDone(step_i, num_steps)
    /\ fnName' = "returned"
    /\ fnRet' = door_action
    /\ UNCHANGED <<envVars, progVars, histVars, fnArg, fnRead, light_list,
                   motorVars, storeVars>>

NextMotor == ApplySetSequence \/ TurnMotorStep \/ TurnMotorReturn

SpecMotor == InitMotor /\ [][NextMotor]_vars

\* The table is built and turn_motor has been entered.
InTurnMotor == fnName \in {"turn_motor", "returned"}

\* C13: for step mode 1 the table has 8 rows; for step mode 2 it has 4 rows,
\* the rows 1, 3, 5, 7 (counted from 0) of the half-step table in their order.
C13_Tables ==
    InTurnMotor =>
        /\ step_size = 1 =>
              /\ Len(step_sequence) = 8
              /\ step_sequence = HalfStepSeq
        /\ step_size = 2 =>
              /\ Len(step_sequence) = 4
              /\ step_sequence = << <<1, 0, 0, 0>>, <<0, 1, 0, 0>>,
                                    <<0, 0, 1, 0>>, <<0, 0, 0, 1>> >>
              /\ \A k \in 0 .. 3 : step_sequence[k + 1] = HalfStepSeq[2 * k + 2]

C13_Witness ==
    /\ fnName = "returned" /\ step_size = 2
    /\ Len(step_sequence) = 4
    /\ step_sequence[4] = HalfStepSeq[8]
    /\ Len(gpio_writes) = 4

\* The levels of row k (counted from 0) of the table.
RowLevels(k) == PinLevels(step_sequence[k + 1])

\* C14: turn_motor with action 'open' issues exactly seq_steps row writes,
\* for both tables, and the k-th (from 0) writes row k mod len(table) to the
\* pins in1..in4.
C14_OpenForward ==
    (InTurnMotor /\ door_action = "open") =>
        /\ Len(gpio_writes) = step_i
        /\ Len(gpio_writes) <= num_steps
        /\ fnName = "returned" => Len(gpio_writes) = num_steps
        /\ \A k \in 0 .. Len(gpio_writes) - 1 :
              gpio_writes[k + 1].levels = RowLevels(k % Len(step_sequence))

C14_Witness ==
    /\ fnName = "returned" /\ door_action = "open" /\ step_size = 1
    /\ num_steps = 10 /\ Len(gpio_writes) = 10
    /\ gpio_writes[8].levels = RowLevels(7)
    /\ gpio_writes[9].levels = RowLevels(0)
    /\ gpio_writes[10].levels = RowLevels(1)

\* C15: turn_motor with action 'close' issues exactly seq_steps row writes,
\* for both tables; the first writes row 0 and each later one the row
\* cyclically before the row written last (after row 0, the last row).
C15_CloseBackward ==
    (InTurnMotor /\ door_action = "close") =>
        LET n == Len(step_sequence)
        IN  /\ Len(gpio_writes) = step_i
            /\ Len(gpio_writes) <= num_steps
            /\ fnName = "returned" => Len(gpio_writes) = num_steps
            /\ \A k \in 0 .. Len(gpio_writes) - 1 :
                  gpio_writes[k + 1].levels = RowLevels((n - (k % n)) % n)

C15_Witness ==
    /\ fnName = "returned" /\ door_action = "close" /\ step_size = 1
    /\ num_steps = 10 /\ Len(gpio_writes) = 10
    /\ gpio_writes[1].levels = RowLevels(0)
    /\ gpio_writes[2].levels = RowLevels(7)
    /\ gpio_writes[8].levels = RowLevels(1)
    /\ gpio_writes[9].levels = RowLevels(0)
    /\ gpio_writes[10].levels = RowLevels(7)

\* C16 (as claimed): the cursor is in 0 .. len(table) - 1 each time a row is
\* written and after each advance.
C16_AsClaimed ==
    InTurnMotor =>
        /\ 0 <= counter /\ counter < Len(step_sequence)
        /\ \A k \in 1 .. Len(gpio_writes) :
              /\ 0 <= gpio_writes[k].cursor
              /\ gpio_writes[k].cursor < Len(step_sequence)

\* The cursor c is within the table as Python indexes it, on the side of
\* zero its direction gives it.
CursorInRange(c) ==
    /\ 0 - Len(step_sequence) < c /\ c < Len(step_sequence)
    /\ door_action = "open" => c >= 0
    /\ door_action = "close" => c <= 0

\* C16 (amended): the cursor is in -(len(table) - 1) .. len(table) - 1, never
\* negative when opening and never positive when closing, each time a row is
\* written and after each advance; the row written is row cursor mod
\* len(table).
C16_CursorWithinTable ==
    InTurnMotor =>
        /\ CursorInRange(counter)
        /\ \A k \in 1 .. Len(gpio_writes) :
              /\ CursorInRange(gpio_writes[k].cursor)
              /\ gpio_writes[k].levels =
                    RowLevels(gpio_writes[k].cursor % Len(step_sequence))

C16_Witness ==
    /\ fnName = "turn_motor" /\ door_action = "close" /\ step_size = 1
    /\ Len(gpio_writes) = 8
    /\ gpio_writes[8].cursor = 0 - 7
    /\ gpio_writes[8].levels = RowLevels(1)
    /\ counter = 0

-----------------------------------------------------------------------------
(* Spec: runs of door_motor.py and of chicken_coop.py *)

MaxTicks == 3

\* The times of day a behaviour starts at: before and inside the open check
\* window and the open frame, at the open limit, inside the close check
\* window and the close frame, before the close limit, and before midnight.
StartTimes ==
    {TimeOfDay(3, 15), TimeOfDay(5, 0), TimeOfDay(7, 0),
     TimeOfDay(17, 0), TimeOfDay(19, 45), TimeOfDay(23, 30)}

TrendLens == {1, 5}

\* What the operator may type at the prompt of check_door_state.
Inputs == {"y", "n", "Y", "N", "x", ""}
\* The answer taken as typed, without lower().
LowerNone(inp) == inp

\* Line 74: user_feedback.lower().
Lower(inp) == IF inp = "Y" THEN "y" ELSE IF inp = "N" THEN "n" ELSE inp

\* strftime('%m/%d/%Y, %H:%M:%S') keeps no microseconds.
Strftime(dt) == dt[1]

\* turn_motor's action: args.door_action, or the controller's `action`.
CurAction == IF prog = "door_motor" THEN door_action ELSE action

\* The motor run of this run of the program has issued all its steps.
MotorRunCompleted ==
    \/ pc = "motor" /\ step_i >= 1 /\ MotorDone(step_i, NumSteps)
    \/ pc \in {"write", "writing"}

Init ==
    /\ now \in StartTimes
    /\ sched = DefaultSchedule
    /\ state_log \in {"default", "custom"}
    \* --state_log is accepted only when the file exists (file_path)
    /\ logFile \in (IF state_log = "default" THEN FileStates
                    ELSE FileStates \ {Absent})
    /\ defFile \in (IF state_log = "default" THEN {Absent}
                    ELSE {Absent, Record("open", NoTime)})
    /\ NoProgram /\ NoHistory /\ NoFunction

Tick ==
    /\ hist.ticks < MaxTicks
    /\ now' = (now + 15) % DayMinutes
    /\ hist' = [hist EXCEPT !.ticks = @ + 1]
    /\ UNCHANGED <<sched, state_log, logFile, defFile, progVars, cyc, fnVars>>

StartRun(p, at) ==
    /\ prog = "none"
    /\ prog' = p /\ pc' = at
    /\ cur_status' = None /\ action' = None /\ reading' = NoReading
    /\ trend' = None /\ step_i' = 0 /\ counter' = 0 /\ door_info' = NoDoorInfo
    /\ pinsWritten' = FALSE /\ cleaned' = FALSE
    /\ hist' = [hist EXCEPT !.fileAtStart = logFile, !.skipped = FALSE,
                            !.wrote = FALSE, !.lastStepAt = NoTime,
                            !.interrupted = FALSE, !.exited = "no"]
    /\ cyc' = NoCycle
    /\ UNCHANGED <<envVars, fnVars>>

StartDoorMotor ==
    /\ StartRun("door_motor", "dm_read")
    /\ door_action' \in Actions
    /\ UNCHANGED trend_len

StartController ==
    /\ StartRun("chicken_coop", "cc_setup")
    /\ trend_len' \in TrendLens
    /\ UNCHANGED door_action

\* door_motor.py:215 and state_log_manager.py:60-70: the state file is read.
DmRead ==
    /\ prog = "door_motor" /\ pc = "dm_read"
    /\ IF logFile.exists
       THEN cur_status' = logFile.door_state /\ pc' = "dm_compare"
       ELSE pc' = "dm_prompt" /\ UNCHANGED cur_status
    /\ UNCHANGED <<envVars, prog, trend_len, door_action, action, reading, trend,
                   step_i, counter, door_info, pinsWritten, cleaned,
                   histVars, fnVars>>

\* state_log_manager.py:71-85: the prompt, repeated until the answer is y or n.
DmPrompt ==
    /\ prog = "door_motor" /\ pc = "dm_prompt"
    /\ \E inp \in Inputs :
          LET user_feedback == Lower(inp)
          IN  IF user_feedback = "y" \/ user_feedback = "n"
              THEN /\ cur_status' = IF user_feedback = "y" THEN "open" ELSE "close"
                   /\ pc' = "dm_compare"
              ELSE UNCHANGED <<cur_status, pc>>
    /\ UNCHANGED <<envVars, prog, trend_len, door_action, action, reading, trend,
                   step_i, counter, door_info, pinsWritten, cleaned,
                   histVars, fnVars>>

\* door_motor.py:216 without the comparison: the motor is always driven.
DoorAlreadyNever(act, state) == FALSE

\* door_motor.py:216 with a record without a door state taken as a match.
DoorAlreadyOrUnknown(act, state) == act = state \/ state = ""

\* door_motor.py:216: args.door_action == cur_status['door_state'].
DoorAlready(act, state) == act = state

\* door_motor.py:216-227: nothing to do, or the pins are set up (setup_pins
\* writes False to each) and turn_motor is entered.
DmCompare ==
    /\ prog = "door_motor" /\ pc = "dm_compare"
    /\ IF DoorAlready(door_action, cur_status)
       THEN /\ pc' = "cleanup"
            /\ hist' = [hist EXCEPT !.skipped = TRUE]
            /\ UNCHANGED <<pinsWritten, step_i, counter>>
       ELSE /\ pc' = "motor"
            /\ pinsWritten' = TRUE
            /\ step_i' = 0 /\ counter' = 0
            /\ UNCHANGED hist
    /\ cleaned' = (cleaned /\ DoorAlready(door_action, cur_status))
    /\ UNCHANGED <<envVars, prog, trend_len, door_action, cur_status, action,
                   reading, trend, door_info, cyc, fnVars>>

\* door_motor.py:178-194: one step of turn_motor: the row at the cursor is
\* written to the four pins, the cursor moves, the step is slept out.
MotorStep ==
    /\ pc = "motor" /\ ~MotorDone(step_i, NumSteps)
    /\ pinsWritten' = TRUE /\ cleaned' = FALSE
    /\ counter' = NextCounter(set_sequence(1), counter, StepDir(CurAction))
    /\ step_i' = step_i + 1
    /\ hist' = IF MotorDone(step_i + 1, NumSteps)
               THEN [hist EXCEPT !.prevRun = hist.lastRun, !.lastRun = CurAction,
                                 !.lastStepAt = now]
               ELSE hist
    /\ UNCHANGED <<envVars, prog, pc, trend_len, door_action, cur_status, action,
                   reading, trend, door_info, cyc, fnVars>>

\* door_motor.py:195-196: turn_motor returns the action and datetime.now().
MotorReturn ==
    /\ pc = "motor" /\ MotorDone(step_i, NumSteps)
    /\ \E usec \in 0 .. 1 :
          door_info' = [door_state |-> CurAction, time |-> <<now, usec>>]
    /\ pc' = "write"
    /\ UNCHANGED <<envVars, prog, trend_len, door_action, cur_status, action,
                   reading, trend, step_i, counter, pinsWritten, cleaned,
                   histVars, fnVars>>

\* state_log_manager.py:13-24, 45-51: Path.write_text opens the file for
\* writing, which creates or empties it ...
WriteOpen ==
    /\ pc = "write"
    /\ logFile' = EmptyFile
    /\ pc' = "writing"
    /\ cyc' = [cyc EXCEPT !.writes = @ + 1]
    /\ UNCHANGED <<now, sched, state_log, defFile, prog, trend_len, door_action,
                   cur_status, action, reading, trend, step_i, counter,
                   door_info, pinsWritten, cleaned, hist, fnVars>>

\* ... and then writes the two lines of set_door_state.
WriteFlush ==
    /\ pc = "writing"
    /\ logFile' = Record(door_info.door_state, Strftime(door_info.time))
    /\ pc' = IF prog = "door_motor" THEN "cleanup" ELSE "cc_loop"
    /\ hist' = [hist EXCEPT !.wrote = TRUE]
    /\ UNCHANGED <<now, sched, state_log, defFile, prog, trend_len, door_action,
                   cur_status, action, reading, trend, step_i, counter,
                   door_info, pinsWritten, cleaned, cyc, fnVars>>

\* The run is over: the program's variables are gone.
EndRun ==
    /\ prog' = "none" /\ pc' = "off" /\ trend_len' = 5
    /\ door_action' = None /\ cur_status' = None /\ action' = None
    /\ reading' = NoReading /\ trend' = None
    /\ step_i' = 0 /\ counter' = 0 /\ door_info' = NoDoorInfo

\* A finally block that leaves the pins as they are.
FinallySkipped(released) == released

\* door_motor.py:238-239, chicken_coop.py:348-349: finally: GPIO.cleanup();
\* whatever the pins were, they are released.
Finally(released) == TRUE

\* The finally block of the main program, and the process exits.
Cleanup ==
    /\ pc = "cleanup"
    /\ cleaned' = Finally(cleaned)
    /\ EndRun
    /\ hist' = [hist EXCEPT !.exited = "finally"]
    /\ UNCHANGED <<envVars, pinsWritten, cyc, fnVars>>

\* A crash or a power loss: the process is gone, nothing is cleaned up.
Crash ==
    /\ prog # "none"
    /\ EndRun
    /\ hist' = [hist EXCEPT !.lostWrite = @ \/ MotorRunCompleted,
                            !.cut = @ \/ ~(MotorRunCompleted \/ hist.wrote),
                            !.exited = "killed"]
    /\ UNCHANGED <<envVars, pinsWritten, cleaned, cyc, fnVars>>

\* KeyboardInterrupt in the try block of the main program.
Interrupt ==
    /\ prog # "none" /\ pc \notin {"cleanup", "cc_measure"}
    /\ pc' = "cleanup"
    /\ hist' = [hist EXCEPT !.lostWrite = @ \/ MotorRunCompleted,
                            !.cut = @ \/ ~(MotorRunCompleted \/ hist.wrote),
                            !.interrupted = TRUE]
    /\ UNCHANGED <<envVars, prog, trend_len, door_action, cur_status, action,
                   reading, trend, step_i, counter, door_info, pinsWritten,
                   cleaned, cyc, fnVars>>

-----------------------------------------------------------------------------
(* The controller: chicken_coop.py, __main__ *)

Zeros(n) == [k \in 1 .. n |-> 0]

\* Lines 317 and 325: rec_list = [0] * trend_len, then rec_list[1:] + [reading].
RecList(n, r) == Zeros(IF n > 1 THEN n - 1 ELSE 0) \o <<r>>

\* trend_check compares a None reading with a number: TypeError.
TrendRaises(list) ==
    \E k \in 1 .. Len(list) - 1 : list[k] = NoReading \/ list[k + 1] = NoReading

\* Lines 329-331 with the elif of line 331 read as belonging to the inner if:
\* limit_check is tried when the trend is not the permitted action.
AfterTrendInnerElif(matched) == IF matched THEN "cc_act" ELSE "cc_limit"

\* Lines 329-334 with an if in the place of the elif of line 331: limit_check
\* is tried after the trend, whatever it gave.
AfterTrendThenLimit(matched) == "cc_limit"

\* Lines 329-334: the elif of line 331 belongs to the if of line 315, so the
\* branch that took the reading goes on to line 334 whatever the trend.
AfterTrend(matched) == "cc_act"

\* Lines 302-311: GPIO.setmode, setup_pins (writes False to each driver pin),
\* the step count, the table, the TimeFrame.
CcSetup ==
    /\ prog = "chicken_coop" /\ pc = "cc_setup"
    /\ pinsWritten' = TRUE /\ cleaned' = FALSE
    /\ pc' = IF TimeFrameOk(sched) THEN "cc_loop" ELSE "cleanup"
    /\ UNCHANGED <<envVars, prog, trend_len, door_action, cur_status, action,
                   reading, trend, step_i, counter, door_info,
                   histVars, fnVars>>

\* Lines 313-315: a cycle starts: action = None, and time_to_check().
CcLoop ==
    /\ prog = "chicken_coop" /\ pc = "cc_loop"
    /\ action' = None
    /\ LET check == time_to_check(TimeFrame(sched), now)
       IN  /\ pc' = IF check THEN "cc_measure" ELSE "cc_limit"
           /\ cyc' = [NoCycle EXCEPT !.checked = check]
    /\ UNCHANGED <<envVars, prog, trend_len, door_action, cur_status, reading,
                   trend, step_i, counter, door_info, pinsWritten, cleaned,
                   hist, fnVars>>

\* Lines 317-324 and light_sensor.py:77-91: take_measurement reads `args`, a
\* name light_sensor.py defines only when it is run as a program (line 134):
\* NameError at line 83 (ZeroDivisionError at line 26 when sample_num < 1).
\* Its finally cleans up, the error leaves the loop of the controller.
CcMeasureRaises ==
    /\ prog = "chicken_coop" /\ pc = "cc_measure"
    /\ cleaned' = TRUE
    /\ pc' = "cleanup"
    /\ UNCHANGED <<envVars, prog, trend_len, door_action, cur_status, action,
                   reading, trend, step_i, counter, door_info, pinsWritten,
                   histVars, fnVars>>

\* light_sensor.py:88-91: a KeyboardInterrupt inside take_measurement's try is
\* caught there; after the cleanup the function returns None.
CcMeasureInterrupted ==
    /\ prog = "chicken_coop" /\ pc = "cc_measure"
    /\ cleaned' = TRUE
    /\ reading' = NoReading
    /\ pc' = "cc_sleep_read"
    /\ hist' = [hist EXCEPT !.interrupted = TRUE]
    /\ UNCHANGED <<envVars, prog, trend_len, door_action, cur_status, action,
                   trend, step_i, counter, door_info, pinsWritten,
                   cyc, fnVars>>

\* Lines 325-327: the reading joins the list; sleep(reading_intervals * 60),
\* 15 minutes by default.
CcSleepRead ==
    /\ prog = "chicken_coop" /\ pc = "cc_sleep_read"
    /\ hist.ticks < MaxTicks
    /\ now' = (now + 15) % DayMinutes
    /\ hist' = [hist EXCEPT !.ticks = @ + 1]
    /\ pc' = "cc_trend"
    /\ UNCHANGED <<sched, state_log, logFile, defFile, prog, trend_len,
                   door_action, cur_status, action, reading, trend, step_i,
                   counter, door_info, pinsWritten, cleaned, cyc, fnVars>>

\* Lines 328-330: trend_check, openclose_check(), and the action when both
\* agree.
CcTrend ==
    /\ prog = "chicken_coop" /\ pc = "cc_trend"
    /\ LET list == RecList(trend_len, reading)
           tf == TimeFrame(sched)
           reads == ActionFrame(tf, now, None) # None
       IN  IF TrendRaises(list)
           THEN /\ pc' = "cleanup"
                /\ UNCHANGED <<trend, action, cyc>>
           ELSE \E ds \in (IF reads THEN DoorStateReads(DefaultFile) ELSE {None}) :
                   LET t == trend_check(list)
                       permitted == openclose_check(tf, now, None, ds, action)
                   IN  /\ trend' = t
                       /\ action' = IF t = permitted THEN t ELSE action
                       /\ cyc' = [cyc EXCEPT
                                     !.frameTime = now, !.permitted = permitted,
                                     !.reads = IF reads THEN {ds} ELSE {},
                                     !.decided = @ + (IF t = permitted
                                                      THEN 1 ELSE 0)]
                       /\ pc' = AfterTrend(t = permitted)
    /\ UNCHANGED <<envVars, prog, trend_len, door_action, cur_status, reading,
                   step_i, counter, door_info, pinsWritten, cleaned, hist,
                   fnVars>>

\* Lines 331-333: limit_check(), and again for the action when it gave one.
CcLimit ==
    /\ prog = "chicken_coop" /\ pc = "cc_limit"
    /\ LET tf == TimeFrame(sched)
           Reads == DoorStateReads(DefaultFile)
       IN  \E ds1 \in Reads, ds2 \in Reads, ds3 \in Reads, ds4 \in Reads :
              LET first == limit_check(tf, now, ds1, ds2, action)
                  Read(a, b) ==
                      (IF is_time_greater(tf.open_limit, now) THEN {a} ELSE {})
                        \cup (IF is_time_greater(tf.close_limit, now) THEN {b} ELSE {})
              IN  /\ action' = IF first # None
                               THEN limit_check(tf, now, ds3, ds4, action)
                               ELSE action
                  /\ cyc' = [cyc EXCEPT
                                !.limitCalls = @ + (IF first # None THEN 2 ELSE 1),
                                !.decided = @ + (IF first # None THEN 1 ELSE 0),
                                !.limitTime = now,
                                !.reads = @ \cup Read(ds1, ds2) \cup
                                    (IF first # None THEN Read(ds3, ds4) ELSE {})]
    /\ pc' = "cc_act"
    /\ UNCHANGED <<envVars, prog, trend_len, door_action, cur_status, reading,
                   trend, step_i, counter, door_info, pinsWritten, cleaned,
                   hist, fnVars>>

\* Lines 334-345: turn_motor is entered with the action, or sleep(60).
CcAct ==
    /\ prog = "chicken_coop" /\ pc = "cc_act"
    /\ IF action # None
       THEN pc' = "motor" /\ step_i' = 0 /\ counter' = 0
       ELSE pc' = "cc_loop" /\ UNCHANGED <<step_i, counter>>
    /\ cyc' = [cyc EXCEPT !.motorRuns = @ + (IF action # None THEN 1 ELSE 0)]
    /\ UNCHANGED <<envVars, prog, trend_len, door_action, cur_status, action,
                   reading, trend, door_info, pinsWritten, cleaned,
                   hist, fnVars>>

\* The pins a written row energizes, and the pins in which two rows differ.
PinsOn(levels) == {pin \in 1 .. 4 : levels[pin]}
PinsChanged(a, b) == {pin \in 1 .. 4 : a[pin] # b[pin]}

\* C32: in half-step mode, in both directions and for every number of
\* steps, every row written to the pins energizes one or two pins, and two
\* rows written one after the other, the cursor's wrap to 0 included,
\* differ in exactly one pin.
C32_HalfStepOnePinChanges ==
    (InTurnMotor /\ step_size = 1) =>
        /\ \A k \in 1 .. Len(gpio_writes) :
              Cardinality(PinsOn(gpio_writes[k].levels)) \in {1, 2}
        /\ \A k \in 1 .. Len(gpio_writes) - 1 :
              Cardinality(PinsChanged(gpio_writes[k].levels,
                                      gpio_writes[k + 1].levels)) = 1

\* Closing in half steps, past the wrap: the eighth write at cursor -7, the
\* ninth at cursor 0.
C32_Witness ==
    /\ fnName = "returned" /\ step_size = 1 /\ door_action = "close"
    /\ Len(gpio_writes) = 10
    /\ gpio_writes[8].cursor = 0 - 7 /\ gpio_writes[9].cursor = 0
    /\ PinsChanged(gpio_writes[8].levels, gpio_writes[9].levels) = {4}

-----------------------------------------------------------------------------
(* SpecSteps: float_2_steps on drawn inputs.  The revolutions are a float,  *)
(* a fraction revs_num / revs_den whose denominator is a power of 2; fnArg  *)
(* holds <<revs_num, revs_den, rev_steps>>.                                 *)

MaxRevNum == 12

\* Powers of 2: whole and half revolutions, and fractions that fall between
\* two steps.
RevDens == {1, 2, 8192, 16384}

\* a / b rounded to the nearest integer, halves to the even one (the
\* decimal context's rounding when line 55 is left out); b > 0.
DecimalRoundHalfEven(a, b) ==
    LET q == a \div b
        r == a - q * b
    IN  IF 2 * r < b THEN q
        ELSE IF 2 * r > b THEN q + 1
        ELSE IF q % 2 = 0 THEN q ELSE q + 1

\* Lines 55-57: int(round(Decimal(revs * rev_count), 0)) under ROUND_DOWN:
\* a / b with its fraction cut off, towards zero; b > 0.
DecimalRoundDown(a, b) ==
    IF a >= 0 THEN a \div b ELSE 0 - ((0 - a) \div b)

\* Lines 48-53: the steps of a revolution, 0 when the TypeError is raised.
RevCount(rev_steps) ==
    IF rev_steps = 1 THEN 4096 ELSE IF rev_steps = 2 THEN 2048 ELSE 0

InitSteps ==
    /\ fnArg \in {<<n, d, rs>> : n \in (0 - MaxRevNum) .. MaxRevNum,
                                 d \in RevDens, rs \in 0 .. 3}
    /\ now = 0
    /\ sched = DefaultSchedule
    /\ state_log = "default"
    /\ logFile = Absent
    /\ defFile = Absent
    /\ NoProgram /\ NoHistory /\ NoMotor /\ NoStore
    /\ fnName = None /\ fnRead = <<>> /\ fnRet = None
    /\ light_list = <<>>

\* num_steps = float_2_steps(args.revolutions, args.step_size).
ApplyFloat2Steps ==
    /\ fnName = None
    /\ fnName' = "float_2_steps"
    /\ IF RevCount(fnArg[3]) = 0
       THEN fnRet' = "TypeError" /\ UNCHANGED num_steps
       ELSE /\ fnRet' = "returned"
            /\ num_steps' = DecimalRoundDown(fnArg[1] * RevCount(fnArg[3]),
                                             fnArg[2])
    /\ UNCHANGED <<envVars, progVars, histVars, fnArg, fnRead, light_list,
                   step_size, step_sequence, gpio_writes, storeVars>>

NextSteps == ApplyFloat2Steps

SpecSteps == InitSteps /\ [][NextSteps]_vars

-----------------------------------------------------------------------------
(* SpecStore: StateLogManager and check_door_state on the text of the file. *)
(* A line of text is the sequence of its whitespace-separated words.        *)

MaxInputs == 3

\* strftime's '%m/%d/%Y, %H:%M:%S': two words, the date with its comma and
\* the time of day to the second.
DateWord == "%m/%d/%Y,"
StrftimeWords(dt) == <<DateWord, ToString(Strftime(dt))>>

\* state_log_manager.py:36-43: the text of the record.
set_door_state(data) ==
    << <<"door_state:", data.door_state>>,
       <<"time:">> \o StrftimeWords(data.time) >>

\* 'door_state' in line, 'time' in line: some word of the line holds the key.
KeyIn(key, line) ==
    \E k \in 1 .. Len(line) :
        \/ key = "door_state" /\ line[k] = "door_state:"
        \/ key = "time" /\ line[k] = "time:"

\* line.split()[-1] for the time as well: the last word only.
TimeOfLineLastWord(line) == <<line[Len(line)]>>

\* Line 69: line.split(maxsplit=1)[-1]: the line after its first word.
TimeOfLine(line) == SubSeq(line, 2, Len(line))

RECURSIVE ParseLines(_, _, _)
\* Lines 63-70: the loop over the lines, from state = '' and time = ''.
ParseLines(lines, state, time) ==
    IF lines = <<>> THEN [door_state |-> state, time |-> time]
    ELSE LET line == Head(lines)
         IN  IF KeyIn("door_state", line)
             THEN ParseLines(Tail(lines), line[Len(line)], time)
             ELSE IF KeyIn("time", line)
                  THEN ParseLines(Tail(lines), state, TimeOfLine(line))
                  ELSE ParseLines(Tail(lines), state, time)

RECURSIVE InputSeqs(_)
InputSeqs(n) ==
    IF n = 0 THEN {<<>>}
    ELSE {Append(w, inp) : w \in InputSeqs(n - 1), inp \in Inputs}

InitStore ==
    /\ now \in {TimeOfDay(5, 0), TimeOfDay(19, 45)}
    /\ file_text \in {[exists |-> FALSE, lines |-> <<>>],
                      [exists |-> TRUE, lines |-> << <<>> >>]}
    /\ log_data \in [door_state : Actions,
                     time : {TimeOfDay(5, 0), TimeOfDay(19, 45)} \X {0, 1}]
    /\ user_inputs \in UNION {InputSeqs(n) : n \in 0 .. MaxInputs}
    /\ sched = DefaultSchedule
    /\ state_log = "default"
    /\ logFile = Absent
    /\ defFile = Absent
    /\ NoProgram /\ NoHistory /\ NoMotor
    /\ fnName = None /\ fnArg = <<>> /\ fnRead = <<>> /\ fnRet = None
    /\ light_list = <<>>

\* state_log_manager.py:13-24, 45-51: StateLogManager(log_data) writes the
\* text of the record to the file.
StoreWrite ==
    /\ fnName = None
    /\ fnName' = "written"
    /\ file_text' = [exists |-> TRUE, lines |-> set_door_state(log_data)]
    /\ UNCHANGED <<envVars, progVars, histVars, fnArg, fnRead, fnRet,
                   light_list, motorVars, log_data, user_inputs>>

\* Lines 60-70: check_door_state reads the file; lines 71-72: the file is not
\* there, the operator is asked.  fnArg keeps what came before the read.
StoreRead ==
    /\ fnName \in {None, "written"}
    /\ fnArg' = <<fnName>>
    /\ IF file_text.exists
       THEN /\ fnRet' = ParseLines(file_text.lines, "", <<>>)
            /\ fnName' = "returned"
       ELSE /\ fnName' = "prompt"
            /\ UNCHANGED fnRet
    /\ UNCHANGED <<envVars, progVars, histVars, fnRead, light_list, motorVars,
                   storeVars>>

\* Lines 72-85: one answer at the prompt.  fnRead keeps the answers given.
StorePrompt ==
    /\ fnName = "prompt" /\ user_inputs # <<>>
    /\ user_inputs' = Tail(user_inputs)
    /\ fnRead' = Append(fnRead, Head(user_inputs))
    /\ LET user_feedback == Lower(Head(user_inputs))
       IN  IF user_feedback = "y" \/ user_feedback = "n"
           THEN /\ fnName' = "returned"
                /\ \E usec \in {0, 1} :
                      fnRet' = [door_state |-> IF user_feedback = "y"
                                               THEN "open" ELSE "close",
                                time |-> <<now, usec>>]
           ELSE UNCHANGED <<fnName, fnRet>>
    /\ UNCHANGED <<envVars, progVars, histVars, fnArg, light_list, motorVars,
                   file_text, log_data>>

NextStore == StoreWrite \/ StoreRead \/ StorePrompt

SpecStore == InitStore /\ [][NextStore]_vars

\* C17: a write of a door state and a timestamp followed by a read of the
\* same file returns the door_state written and the timestamp written, to
\* the second as it was serialized.
C17_RoundTrip ==
    (fnName = "returned" /\ fnArg = <<"written">>) =>
        /\ fnRet.door_state = log_data.door_state
        /\ fnRet.time = StrftimeWords(log_data.time)
        /\ fnRet.time = <<DateWord, ToString(log_data.time[1])>>

C17_Witness ==
    /\ fnName = "returned" /\ fnArg = <<"written">>
    /\ log_data = [door_state |-> "close", time |-> <<TimeOfDay(19, 45), 1>>]
    /\ fnRet = [door_state |-> "close", time |-> <<DateWord, "1185">>]

\* An answer the prompt accepts: y or n in either case.
ValidAnswer(inp) == inp \in {"y", "n", "Y", "N"}

\* C18: with the state file absent check_door_state asks the operator again
\* after every answer that is not y or n (in either case) and returns upon
\* the first that is: open for y, close for n, with the current time.
C18_Bootstrap ==
    LET n == Len(fnRead)
    IN  /\ fnName = "prompt" => \A k \in 1 .. n : ~ValidAnswer(fnRead[k])
        /\ (fnName = "returned" /\ ~file_text.exists) =>
              /\ n >= 1
              /\ \A k \in 1 .. n - 1 : ~ValidAnswer(fnRead[k])
              /\ ValidAnswer(fnRead[n])
              /\ fnRet.door_state =
                    (IF fnRead[n] \in {"y", "Y"} THEN "open" ELSE "close")
              /\ fnRet.time[1] = now

C18_Witness ==
    /\ fnName = "returned" /\ ~file_text.exists
    /\ fnRead = <<"x", "", "N">>
    /\ fnRet.door_state = "close" /\ fnRet.time[1] = now

-----------------------------------------------------------------------------
(* SpecReads: successive calls of check_door_state, as openclose_check      *)
(* makes them, on a file that is absent until an actuation writes it.       *)
(* fnArg keeps the door states the completed calls returned, fnRead the     *)
(* answers given at the prompts; hist.wrote: StateLogManager has written.   *)

MaxReads == 3

\* The bootstrap keeping the operator's answer in the file.
FileAfterBootstrapPersisted(text, door_state) ==
    [exists |-> TRUE, lines |-> << <<"door_state:", door_state>> >>]

\* state_log_manager.py:71-86: the except branch builds state_lex and writes
\* nothing.
FileAfterBootstrap(text, door_state) == text

InitReads ==
    /\ now = TimeOfDay(19, 45)
    /\ file_text = [exists |-> FALSE, lines |-> <<>>]
    /\ log_data \in [door_state : Actions, time : {<<TimeOfDay(19, 45), 0>>}]
    /\ user_inputs \in UNION {InputSeqs(n) : n \in 0 .. MaxInputs}
    /\ sched = DefaultSchedule
    /\ state_log = "default"
    /\ logFile = Absent
    /\ defFile = Absent
    /\ NoProgram /\ NoHistory /\ NoMotor
    /\ fnName = None /\ fnArg = <<>> /\ fnRead = <<>> /\ fnRet = None
    /\ light_list = <<>>

\* Lines 60-72: a call of check_door_state: the file is parsed, or it is not
\* there and the operator is asked.
ReadsCall ==
    /\ fnName # "prompt" /\ Len(fnArg) < MaxReads
    /\ IF file_text.exists
       THEN LET state_lex == ParseLines(file_text.lines, "", <<>>)
            IN  /\ fnRet' = state_lex
                /\ fnArg' = Append(fnArg, state_lex.door_state)
                /\ fnName' = "returned"
       ELSE /\ fnName' = "prompt"
            /\ UNCHANGED <<fnRet, fnArg>>
    /\ UNCHANGED <<envVars, progVars, histVars, fnRead, light_list, motorVars,
                   storeVars>>

\* Lines 72-86: one answer at the prompt; y or n ends the call.
ReadsPrompt ==
    /\ fnName = "prompt" /\ user_inputs # <<>>
    /\ user_inputs' = Tail(user_inputs)
    /\ fnRead' = Append(fnRead, Head(user_inputs))
    /\ LET user_feedback == Lower(Head(user_inputs))
           door_state == IF user_feedback = "y" THEN "open" ELSE "close"
       IN  IF user_feedback = "y" \/ user_feedback = "n"
           THEN /\ fnName' = "returned"
                /\ \E usec \in {0, 1} :
                      fnRet' = [door_state |-> door_state,
                                time |-> <<now, usec>>]
                /\ fnArg' = Append(fnArg, door_state)
                /\ file_text' = FileAfterBootstrap(file_text, door_state)
           ELSE UNCHANGED <<fnName, fnRet, fnArg, file_text>>
    /\ UNCHANGED <<envVars, progVars, histVars, light_list, motorVars,
                   log_data>>

\* StateLogManager(log_data) after a motor run: the record is written.
ReadsWrite ==
    /\ fnName # "prompt" /\ ~hist.wrote
    /\ file_text' = [exists |-> TRUE, lines |-> set_door_state(log_data)]
    /\ hist' = [hist EXCEPT !.wrote = TRUE]
    /\ UNCHANGED <<envVars, progVars, cyc, fnName, fnArg, fnRead, fnRet,
                   light_list, motorVars, log_data, user_inputs>>

NextReads == ReadsCall \/ ReadsPrompt \/ ReadsWrite

SpecReads == InitReads /\ [][NextReads]_vars

\* C31: the bootstrap answer is not kept: while no actuation has written the
\* state file it stays absent, every call of check_door_state has asked the
\* operator (as many accepted answers as completed calls, each call
\* returning the state of its own answer), so that two successive calls can
\* return different door states.
C31_PromptEveryRead ==
    ~hist.wrote =>
        /\ ~file_text.exists
        /\ Cardinality({k \in 1 .. Len(fnRead) : ValidAnswer(fnRead[k])})
              = Len(fnArg)
        /\ fnName = "returned" =>
              /\ fnRead # <<>> /\ ValidAnswer(fnRead[Len(fnRead)])
              /\ fnArg[Len(fnArg)] = fnRet.door_state
              /\ fnRet.door_state =
                    (IF fnRead[Len(fnRead)] \in {"y", "Y"}
                     THEN "open" ELSE "close")

\* Two calls on the absent file, the first answered y, the second x and then
\* n: open, then close.
C31_Witness ==
    /\ ~hist.wrote /\ ~file_text.exists
    /\ fnName = "returned"
    /\ fnRead = <<"y", "x", "n">>
    /\ fnArg = <<"open", "close">>

\* After the write a call returns the record and asks nothing.
ReadsAfterWrite ==
    (hist.wrote /\ fnName = "returned" /\ fnArg # <<>>
       /\ Cardinality({k \in 1 .. Len(fnRead) : ValidAnswer(fnRead[k])})
             < Len(fnArg)) =>
        fnArg[Len(fnArg)] = log_data.door_state

-----------------------------------------------------------------------------
(* SpecWindow: the reading window of the controller's sampling cycles, the  *)
(* reading of each cycle drawn as a number (what take_measurement is        *)
(* documented to return)                                                    *)

MaxCycles == 4

InitWindow ==
    /\ trend_len \in 2 .. MaxLen
    /\ now = 0
    /\ sched = DefaultSchedule
    /\ state_log = "default"
    /\ logFile = Absent
    /\ defFile = Absent
    /\ prog = "none" /\ pc = "off"
    /\ door_action = None /\ cur_status = None
    /\ action = None /\ reading = NoReading /\ trend = None
    /\ step_i = 0 /\ counter = 0 /\ door_info = NoDoorInfo
    /\ pinsWritten = FALSE /\ cleaned = FALSE
    /\ NoHistory /\ NoFunction

\* chicken_coop.py:317-328, one sampling cycle: the list is built anew, the
\* reading joins it, and it is passed to trend_check.  fnArg keeps the
\* readings in arrival order, fnRead the window of the cycle before.
SampleCycle ==
    /\ Len(fnArg) < MaxCycles
    /\ \E r \in 0 .. MaxReading :
          /\ reading' = r
          /\ light_list' = RecList(trend_len, r)
          /\ fnArg' = Append(fnArg, r)
          /\ trend' = trend_check(RecList(trend_len, r))
    /\ fnRead' = light_list
    /\ fnName' = "sample"
    /\ UNCHANGED <<envVars, prog, pc, trend_len, door_action, cur_status,
                   action, step_i, counter, door_info, pinsWritten, cleaned,
                   histVars, fnRet, motorVars, storeVars>>

NextWindow == SampleCycle

SpecWindow == InitWindow /\ [][NextWindow]_vars

\* C12: after each new reading the window is the window of the cycle before
\* without its oldest element, followed by the new reading; after at least
\* trend_len sampling cycles the window passed to trend_check holds the last
\* trend_len readings in arrival order.
C12_AsClaimed ==
    /\ Len(fnArg) >= 2 => light_list = Append(Tail(fnRead), reading)
    /\ Len(fnArg) >= trend_len =>
           light_list = SubSeq(fnArg, Len(fnArg) - trend_len + 1, Len(fnArg))

DoorMotorNext ==
    \/ StartDoorMotor \/ DmRead \/ DmPrompt \/ DmCompare

MotorNext ==
    \/ MotorStep \/ MotorReturn \/ WriteOpen \/ WriteFlush

ControllerNext ==
    \/ StartController \/ CcSetup \/ CcLoop \/ CcMeasureRaises
    \/ CcMeasureInterrupted \/ CcSleepRead \/ CcTrend \/ CcLimit \/ CcAct

Next ==
    \/ Tick
    \/ DoorMotorNext \/ MotorNext \/ ControllerNext
    \/ Cleanup \/ Crash \/ Interrupt

Spec == Init /\ [][Next]_vars

\* The process is scheduled: the controller's loop and the motor's steps go
\* on, and an interrupted run reaches its finally block.  Time, crashes and
\* interrupts are not forced.
FairSpec == Spec /\ WF_vars(ControllerNext \/ MotorNext \/ Cleanup)

-----------------------------------------------------------------------------
(* Claims about the runs *)

SameRunTwice == hist.prevRun # None /\ hist.prevRun = hist.lastRun

\* C1 (as claimed): whatever runs are cut short by a crash or a power loss,
\* the motor never completes two consecutive runs with the same action.
C1_AsClaimed == ~SameRunTwice

\* What the state record does give: as long as no run has ended between the
\* completion of its motor run and the completion of its state write, the
\* motor never completes two consecutive runs with the same action.
NoRepeatUnlessWriteLost == ~hist.lostWrite => ~SameRunTwice

NoRepeatWitness ==
    /\ hist.prevRun = "open" /\ hist.lastRun = "close"
    /\ hist.cut /\ ~hist.lostWrite
    /\ hist.wrote /\ logFile.door_state = "close"

Driving == pc \in {"motor", "write", "writing"}

\* C2: whenever the motor is driven with an action, the door_state read in
\* that run or cycle was not that action; when the action asked for equals the
\* persisted door_state, no driver pin is written and the state file is left
\* as it was.
C2_DrivenOnlyWhenDifferent ==
    /\ (prog = "door_motor" /\ Driving) => cur_status # door_action
    /\ (prog = "chicken_coop" /\ Driving) => action \notin cyc.reads
    /\ hist.skipped => (~pinsWritten /\ logFile = hist.fileAtStart)

C2_Witness ==
    /\ prog = "door_motor" /\ pc = "cleanup"
    /\ hist.skipped /\ ~pinsWritten
    /\ door_action = "open" /\ cur_status = "open"
    /\ hist.lastRun = "open"
    /\ logFile.door_state = "open" /\ logFile = hist.fileAtStart

\* permittedAction as C4 states it: the frame's action unless the door is
\* already in that state.
PermittedAsStated(tf, t, door_state) ==
    IF InOpenFrame(tf, t)
    THEN IF door_state # "open" THEN "open" ELSE None
    ELSE IF InCloseFrame(tf, t)
         THEN IF door_state # "close" THEN "close" ELSE None
         ELSE None

\* The controller has taken the branch of line 315 and decided (line 330).
DecidedOnTrend ==
    /\ prog = "chicken_coop" /\ pc = "cc_act"
    /\ cyc.checked /\ cyc.frameTime # NoTime

\* The motor has run to close the door and the state file says so.
CloseActuated ==
    /\ hist.lastRun = "close" /\ hist.wrote
    /\ logFile.exists /\ logFile.door_state = "close"

\* A cycle of the controller has found no check due and has called
\* limit_check past close_limit with the persisted door_state open.
PastCloseLimitOpen ==
    /\ prog = "chicken_coop" /\ pc = "cc_act"
    /\ cyc.limitCalls > 0
    /\ is_time_greater(TimeFrame(sched).close_limit, now)
    /\ DefaultFile.exists /\ DefaultFile.door_state = "open"

C7_AsClaimed ==
    (/\ DecidedOnTrend
     /\ trend \in Actions
     /\ \E ds \in cyc.reads :
           PermittedAsStated(TimeFrame(sched), cyc.frameTime, ds) = trend)
        => action = trend

\* C8 (as claimed): in a cycle where time_to_check is true and the trend's
\* candidate is not the permitted action, limit_check is still evaluated.
C8_AsClaimed ==
    (DecidedOnTrend /\ trend # cyc.permitted) => cyc.limitCalls > 0

\* C8 (amended): in a cycle where time_to_check is true limit_check is not
\* evaluated; when the trend's candidate is not the action openclose_check
\* returned, the cycle decides no action and returns to Idle.
C8_NoLimitCheckWhenChecking ==
    (prog = "chicken_coop" /\ cyc.checked) =>
        /\ cyc.limitCalls = 0
        /\ (DecidedOnTrend /\ trend # cyc.permitted) => action = None

C8_Witness ==
    /\ DecidedOnTrend
    /\ trend = "close" /\ cyc.permitted = None
    /\ is_time_greater(TimeFrame(sched).open_limit, now)
    /\ cyc.reads = {"close"}
    /\ cyc.limitCalls = 0 /\ action = None

\* C9: a write of the state file follows, in the same run or cycle, a motor
\* run that has issued all its steps for the action written; the time written
\* is the clock's after the last step.
C9_WriteAfterRun ==
    (prog # "none" /\ (pc \in {"write", "writing"} \/ hist.wrote)) =>
        /\ step_i = NumSteps
        /\ hist.lastRun = CurAction
        /\ door_info.door_state = CurAction
        /\ (door_info.time[1] - hist.lastStepAt + DayMinutes) % DayMinutes
              <= (now - hist.lastStepAt + DayMinutes) % DayMinutes
        /\ (hist.wrote /\ pc = "cleanup") =>
              logFile = Record(CurAction, Strftime(door_info.time))

C9_Witness ==
    /\ prog = "door_motor" /\ pc = "cleanup" /\ hist.wrote
    /\ step_i = NumSteps
    /\ logFile = Record(door_action, door_info.time[1])
    /\ door_info.time[1] # hist.lastStepAt
    /\ door_info.time[2] = 1


\* C19: an interrupt received by the controller, inside the sensor
\* measurement as anywhere else, is followed by the release of the pins and
\* the end of the process and by nothing else of the loop: an interrupted
\* controller is on its way out, the pins released or about to be.
C19_AsClaimed ==
    (prog = "chicken_coop" /\ hist.interrupted) => pc = "cleanup"

\* C20: unless it is interrupted the controller does not stop: no cycle,
\* one that takes a reading included, takes it out of its loop.
C20_AsClaimed ==
    (prog = "chicken_coop" /\ pc = "cleanup") =>
        (hist.interrupted \/ ~TimeFrameOk(sched))


\* C21: when the controller or door_motor has exited through an interrupt
\* or an error, GPIO.cleanup has been executed after the last pin write of
\* the run and before the exit.
C21_CleanupBeforeExit ==
    (prog = "none" /\ hist.exited = "finally") => cleaned

C21_Witness ==
    /\ prog = "none" /\ hist.exited = "finally"
    /\ hist.interrupted /\ hist.cut
    /\ pinsWritten /\ cleaned


\* C24: the state file changes only in a state write that follows a motor
\* run that has issued all its steps for the action written; reading it, the
\* operator's answer at the prompt, the schedule checks, the sampling and
\* the trend classification leave it as it is, and nothing touches any other
\* state file.
C24_FrameEffect ==
    [][(logFile' # logFile \/ defFile' # defFile) =>
          /\ defFile' = defFile
          /\ pc \in {"write", "writing"}
          /\ step_i = NumSteps /\ hist.lastRun = CurAction
          /\ door_info.door_state = CurAction]_vars

\* The operator has answered the prompt for a missing state file, and the
\* file is still missing.
C24_Witness ==
    /\ prog = "door_motor" /\ pc = "dm_compare"
    /\ ~logFile.exists /\ hist.fileAtStart = logFile
    /\ cur_status = "close" /\ door_action = "close"


\* C25: in every iteration of the controller's loop at most one of the two
\* deciding branches is taken (the trend's, line 329, or the limit's, line
\* 331), so that at most one action is decided; turn_motor is called at most
\* once and the state file is written at most once.
C25_OncePerCycle ==
    prog = "chicken_coop" =>
        /\ ~(cyc.frameTime # NoTime /\ cyc.limitCalls > 0)
        /\ cyc.decided <= 1
        /\ cyc.motorRuns <= 1
        /\ cyc.writes <= 1
        /\ cyc.motorRuns <= cyc.decided /\ cyc.writes <= cyc.motorRuns

\* A cycle that has taken the limit's branch, called limit_check once and
\* decided no action.
C25_Witness ==
    /\ prog = "chicken_coop" /\ pc = "cc_loop"
    /\ ~cyc.checked /\ cyc.limitCalls = 1
    /\ cyc.decided = 0 /\ cyc.motorRuns = 0 /\ cyc.writes = 0
    /\ action = None


\* The controller has called limit_check in this iteration, at a time of
\* day strictly past close_limit, and every read of the state file gave
\* 'close'.
LimitCheckedPastCloseDoorClosed ==
    /\ prog = "chicken_coop" /\ cyc.limitCalls > 0
    /\ is_time_greater(TimeFrame(sched).close_limit, cyc.limitTime)
    /\ cyc.reads = {"close"}

\* C26: strictly past close_limit with the persisted door_state close,
\* limit_check gives no action, so the door is not forced open after the
\* close deadline; and no iteration that takes the limit's branch runs the
\* motor, so that limit-forced actuations never alternate.
C26_NoForcedReopen ==
    /\ LimitCheckedPastCloseDoorClosed =>
          (action = None /\ cyc.decided = 0 /\ ~Driving)
    /\ (prog = "chicken_coop" /\ cyc.limitCalls > 0) => cyc.motorRuns = 0

C26_Witness ==
    /\ LimitCheckedPastCloseDoorClosed
    /\ pc = "cc_act" /\ action = None
    /\ now = TimeOfDay(20, 15) /\ cyc.limitTime = now
    /\ logFile = Record("close", NoTime)


\* C28: openclose_check returns the module's `action`, None at every call,
\* so in the controller, whatever the cycles, times of day, readings and
\* persisted door states, `action` is None at the actuation test (and
\* everywhere else), turn_motor is never called and the state file is never
\* written.
C28_ControllerNeverActuates ==
    prog = "chicken_coop" =>
        /\ action = None /\ cyc.permitted = None
        /\ pc \notin {"motor", "write", "writing"}
        /\ step_i = 0 /\ hist.lastStepAt = NoTime /\ ~hist.wrote
        /\ logFile = hist.fileAtStart

\* The actuation test in the close frame with a falling light and the file
\* saying 'close', where openclose_check returns `action` itself.
C28_Witness ==
    /\ prog = "chicken_coop" /\ pc = "cc_act"
    /\ cyc.frameTime # NoTime
    /\ ActionFrame(TimeFrame(sched), cyc.frameTime, None) = "close"
    /\ cyc.reads = {"close"} /\ trend = "close"
    /\ action = None /\ hist.ticks > 0


\* C29: the controller reads the door state it compares against from the
\* file it writes after a motor run, the one at --state_log, whatever path
\* is configured: every door state read in a cycle is the one the record at
\* --state_log holds.
C29_AsClaimed ==
    (prog = "chicken_coop" /\ cyc.reads # {} /\ logFile.exists) =>
        cyc.reads = {logFile.door_state}

\* With --state_log left at its default the file read is the file written.
ReadsDefaultPath ==
    (prog = "chicken_coop" /\ cyc.reads # {} /\ DefaultFile.exists) =>
        cyc.reads = {DefaultFile.door_state}


\* C30: a state file that exists and has no door_state line (an empty file,
\* as a crash in the middle of a write leaves it) is read without an error
\* and without a prompt; the door_state read is empty, neither 'open' nor
\* 'close', so door_motor's main drives the motor whichever action is asked
\* for, and then writes the record.
C30_EmptyFileDrives ==
    /\ ParseLines(<< <<>> >>, "", <<>>).door_state = EmptyFile.door_state
    /\ (prog = "door_motor" /\ hist.fileAtStart = EmptyFile) =>
          /\ pc # "dm_prompt"
          /\ (pc \in {"dm_compare", "motor", "write", "writing"}
                \/ (pc = "cleanup" /\ ~hist.interrupted)) =>
                /\ cur_status = "" /\ cur_status \notin Actions
                /\ ~DoorAlready(door_action, cur_status)
                /\ ~hist.skipped
          /\ pc \in {"motor", "write", "writing"} => pinsWritten
          /\ (pc = "cleanup" /\ ~hist.interrupted) =>
                (step_i = NumSteps /\ hist.wrote /\ hist.lastRun = door_action)

\* An earlier run ended after its motor run and before its write completed;
\* this run, asked to close, has read the empty file, driven the motor
\* through and written 'close'.
C30_Witness ==
    /\ prog = "door_motor" /\ pc = "cleanup" /\ ~hist.interrupted
    /\ hist.fileAtStart = EmptyFile /\ hist.prevRun # None /\ hist.lostWrite
    /\ door_action = "close" /\ cur_status = ""
    /\ step_i = NumSteps /\ hist.wrote
    /\ logFile.door_state = "close"

=============================================================================
